---- MODULE Spec2Model ----
(***************************************************************************)
(* ByteBuffer (src/bytebuffer.go, the current variant at lines 437-937):   *)
(* a fixed-capacity byte buffer with one read/write position, a valid      *)
(* length, a switchable byte order, sequential Write*/Read* operations and *)
(* position-independent Put*/Get* operations.                              *)
(*                                                                         *)
(* Representation of Go values:                                            *)
(*   byte, uint16            a natural number                              *)
(*   int16, int32, int       an integer (int is 32 bits wide, as on the    *)
(*                           386/arm builds; sums wrap, see IntAdd)        *)
(*   uint32, uint64          a tuple of 16-bit limbs, least significant    *)
(*                           limb first (2 and 4 limbs)                    *)
(*   int64                   [hi: int32, lo: uint32 limbs]                 *)
(*   float32                 [sign, exp, mant] of IEEE-754 binary32        *)
(*   float64                 [sign, exp, mant: 4 limbs] of binary64        *)
(*   string, []byte          a sequence of bytes                           *)
(***************************************************************************)
EXTENDS Integers, Sequences, FiniteSets, TLC

VARIABLES
    cap,      \* ByteBuffer.cap: the capacity, len(buf.buf)
    buf,      \* ByteBuffer.buf: the storage, a function 0..cap-1 -> byte
    length,   \* ByteBuffer.length: the valid data length
    offset,   \* ByteBuffer.offset: the read/write position
    order,    \* ByteBuffer.order: "LittleEndian" or "BigEndian"
    last,     \* the last call: its name, arguments, results and the state before it
    ops,      \* number of calls made so far on a buffer of capacity WideCap
    written,  \* bytes asked of the Write* calls since the buffer was empty, or -1
    rt,       \* the value the caller is reading back after writing it, if any
    scn,      \* the write-then-read-back scenario the caller is running, if any
    race,     \* the goroutines that write to the buffer without serialization, if any
    since     \* the storage indices stored to since the last Reset (or the construction)

vars == <<cap, buf, length, offset, order, last, ops, written, rt, scn, race, since>>

-----------------------------------------------------------------------------
(* Bounds *)

\* Capacity of the small buffer, which is put through every sequence of calls; the
\* 4-byte and the 8-byte operations can only fail on it.
NarrowCap == 3
\* Capacity of the large buffer, which is put through the sequences of at most
\* MaxOps calls of WideOps: the 4-byte and the 8-byte operations can succeed on it,
\* at a position that a 1-byte write has moved from 0.
WideCap == 9
\* Number of calls explored on the large buffer.
MaxOps == 2
\* Capacity of the buffer of the write-then-read-back scenario, and the number of
\* values the scenario writes.
ScenarioCap == 12
MaxWrites == 3

-----------------------------------------------------------------------------
(* Program constants *)

TRUE_BYTE == 1
FALSE_BYTE == 0

SIZEOF_1_BYTE == 1
SIZEOF_2_BYTE == 2
SIZEOF_4_BYTE == 4
SIZEOF_8_BYTE == 8

\* The largest and the smallest value of Go's int where it is 32 bits wide.
MaxInt == 2147483647
MinInt == -MaxInt - 1

ErrorWriteOverflow == "ErrorWriteOverflow"
ErrorReadOverflow == "ErrorReadOverflow"
ErrorPositionOverflow == "ErrorPositionOverflow"
\* A nil error, and a run-time panic (slice bounds out of range) leaving the call.
Nil == "nil"
Panic == "panic"

LittleEndian == "LittleEndian"
BigEndian == "BigEndian"
Orders == {LittleEndian, BigEndian}

-----------------------------------------------------------------------------
(* Machine arithmetic and the encodings *)

\* a + b on Go's int: the sum wraps around modulo 2^32.
IntAdd(a, b) ==
    IF b >= 0 /\ a > MaxInt - b
    THEN (a - MaxInt - 1) + (b - MaxInt - 1)
    ELSE IF b < 0 /\ a < MinInt - b
         THEN (a + MaxInt + 1) + (b + MaxInt + 1)
         ELSE a + b

\* byte(v >> (8*k)) of an unsigned value v given by its 16-bit limbs.
ByteOf(v, k) == (v[(k \div 2) + 1] \div (IF k % 2 = 0 THEN 1 ELSE 256)) % 256

\* A PutUint that stores the most significant byte first whatever the order.
PutUintBigEndianOnly(ord, size, v) == [k \in 1..size |-> ByteOf(v, size - k)]

\* A PutUint that stores the least significant byte first whatever the order.
PutUintLittleEndianOnly(ord, size, v) == [k \in 1..size |-> ByteOf(v, k - 1)]

\* order.PutUint16/32/64: the size bytes order stores for v, first byte first.
PutUint(ord, size, v) ==
    [k \in 1..size |->
        IF ord = LittleEndian THEN ByteOf(v, k - 1) ELSE ByteOf(v, size - k)]

\* order.Uint16/32/64(b[off:]): the limbs of the value order reads from b at off.
Uint(ord, size, b, off) ==
    LET at(s) == IF ord = LittleEndian THEN b[off + s] ELSE b[off + size - 1 - s]
    IN  [j \in 1..(size \div 2) |-> at(2 * (j - 1)) + 256 * at(2 * (j - 1) + 1)]

\* uint16(value) of an int16 and int16(value) of a uint16.
U16ofI16(x) == x % 65536
I16ofU16(u) == IF u >= 32768 THEN u - 65536 ELSE u

\* uint32(value) of an int32 and int32(value) of a uint32.
U32ofI32(x) == <<x % 65536, (x \div 65536) % 65536>>
I32ofU32(u) ==
    IF u[2] >= 32768 THEN (u[2] - 65536) * 65536 + u[1] ELSE u[2] * 65536 + u[1]

\* uint64(value) of an int64 and int64(value) of a uint64.
U64ofI64(x) == <<x.lo[1], x.lo[2], x.hi % 65536, (x.hi \div 65536) % 65536>>
I64ofU64(u) == [hi |-> I32ofU32(<<u[3], u[4]>>), lo |-> <<u[1], u[2]>>]

\* math.Float32bits and math.Float32frombits: sign(1) exp(8) mant(23).
Float32bits(f) ==
    <<f.mant % 65536, f.sign * 32768 + f.exp * 128 + (f.mant \div 65536)>>
Float32frombits(u) ==
    [sign |-> u[2] \div 32768,
     exp  |-> (u[2] \div 128) % 256,
     mant |-> (u[2] % 128) * 65536 + u[1]]

\* math.Float64bits and math.Float64frombits: sign(1) exp(11) mant(52).
Float64bits(f) ==
    <<f.mant[1], f.mant[2], f.mant[3], f.sign * 32768 + f.exp * 16 + f.mant[4]>>
Float64frombits(u) ==
    [sign |-> u[4] \div 32768,
     exp  |-> (u[4] \div 16) % 2048,
     mant |-> <<u[1], u[2], u[3], u[4] % 16>>]

\* copy(b[off:], bytes) and the order.PutUint* stores: bytes laid into b from off.
Store(b, off, bytes) ==
    [i \in DOMAIN b |->
        IF off <= i /\ i < off + Len(bytes) THEN bytes[i - off + 1] ELSE b[i]]

\* b[low:high] as a sequence of bytes.
Slice(b, low, high) == [k \in 1..(high - low) |-> b[low + k - 1]]

\* The slice expression b[low:high] on storage of capacity c does not panic.
SliceOK(low, high, c) == 0 <= low /\ low <= high /\ high <= c

-----------------------------------------------------------------------------
(* Arguments the calls are made with *)

Caps == {0, NarrowCap, WideCap}

ByteVals == {0, 1, 255}
BoolVals == {TRUE, FALSE}
\* 0xFF01
Int16Vals == {-255}
\* 0x01FF
UInt16Vals == {511}
\* 0xFF0001FF
Int32Vals == {-16776705}
\* 0x0100FF00
UInt32Vals == {<<65280, 256>>}
\* bits 0x0100FF01
Float32Vals == {[sign |-> 0, exp |-> 2, mant |-> 65281]}
\* 0xFF01000000000100
Int64Vals == {[hi |-> -16711680, lo |-> <<256, 0>>]}
\* 0x0001FF00000000FF
UInt64Vals == {<<255, 0, 65280, 1>>}
\* bits 0xFF0100FF00000001
Float64Vals == {[sign |-> 1, exp |-> 2032, mant |-> <<1, 0, 255, 1>>]}
BytesVals == {<<>>, <<1, 0>>, <<1, 255, 0>>}
StringVals == {<<>>, <<255>>, <<1, 0, 255>>}

\* The values of the benchmark (BenchmarkByteBuffer), its string cut to 3 bytes:
\* 100, 32767, 25, "123", true, 3.1415926 (bits 0x400921FB4D12D84A as float64 and
\* 0x40490FDA as float32) and the bytes 1..5.
BenchInt8Vals == {100}
BenchInt16Vals == {32767}
BenchInt32Vals == {25}
BenchStringVals == {<<49, 50, 51>>}
BenchBoolVals == {TRUE}
BenchFloat64Vals == {[sign |-> 0, exp |-> 1024, mant |-> <<55370, 19730, 8699, 9>>]}
BenchFloat32Vals == {[sign |-> 0, exp |-> 128, mant |-> 4788186]}
BenchBytesVals == {<<1, 2, 3, 4, 5>>, <<>>}
BenchDestVals == {<<0, 0, 0, 0, 0>>, <<>>}
BenchLengths == {-1, 0, 3, 5}

\* Lengths asked of ReadString and ReadBytes, and the destinations of ReadBytes.
StringLengths == {-1, 0, 1, 3, MaxInt}
BytesLengths == {-1, 0, 1, 3}
DestVals == {<<>>, <<255, 255>>}
\* Positions asked of SetPosition, and offsets given to the Put* and Get* of size
\* bytes: a negative one, the offsets at which the bytes fit the capacity and the
\* first at which they do not, and the largest integers.
Positions == {MinInt, -1, MaxInt} \cup (0..(cap + 1))
Offsets(size) == {-1, MaxInt - 8, MaxInt} \cup (0..(cap - size + 1))

-----------------------------------------------------------------------------
(* The buffer *)

\* NewByteBuffer(c, o): zeroed storage of c bytes, nothing written, position 0.
NewByteBuffer(c, o) ==
    /\ cap = c
    /\ buf = [i \in 0..(c - 1) |-> 0]
    /\ order = o
    /\ length = 0
    /\ offset = 0

\* The state a call starts in, kept with the call's record; after is the call whose
\* results the caller still holds ("none" but for a Reset that follows a Reset).
Pre ==
    [cap |-> cap, buf |-> buf, length |-> length, offset |-> offset,
     order |-> order, written |-> written, rt |-> rt, scn |-> scn,
     since |-> since, after |-> last.op]

\* No call is being looked at: the caller is about to make its next call.
NoCall == [op |-> "none", args |-> <<>>, ret |-> <<>>, err |-> Nil, pre |-> <<>>]

\* The Write* and Read* methods of the primitive types, and the sizes of the types.
PrimitiveWrites ==
    {"WriteInt8", "WriteBoolean", "WriteInt16", "WriteUInt16", "WriteInt32",
     "WriteUInt32", "WriteInt64", "WriteUInt64", "WriteFloat32", "WriteFloat64"}
PrimitiveReads ==
    {"ReadInt8", "ReadBoolean", "ReadInt16", "ReadUInt16", "ReadInt32",
     "ReadUInt32", "ReadInt64", "ReadUInt64", "ReadFloat32", "ReadFloat64"}
Writes == PrimitiveWrites \cup {"WriteBytes", "WriteString"}
Reads == PrimitiveReads \cup {"ReadBytes", "ReadString"}
Puts == {"PutUInt16", "PutUInt32", "PutUInt64"}
Gets == {"GetUInt16", "GetUInt32", "GetUInt64"}

ReadOf(w) ==
    CASE w = "WriteInt8" -> "ReadInt8"
      [] w = "WriteBoolean" -> "ReadBoolean"
      [] w = "WriteInt16" -> "ReadInt16"
      [] w = "WriteUInt16" -> "ReadUInt16"
      [] w = "WriteInt32" -> "ReadInt32"
      [] w = "WriteUInt32" -> "ReadUInt32"
      [] w = "WriteInt64" -> "ReadInt64"
      [] w = "WriteUInt64" -> "ReadUInt64"
      [] w = "WriteFloat32" -> "ReadFloat32"
      [] w = "WriteFloat64" -> "ReadFloat64"
      [] w = "PutUInt16" -> "ReadUInt16"
      [] w = "PutUInt32" -> "ReadUInt32"
      [] w = "PutUInt64" -> "ReadUInt64"
      [] OTHER -> "none"

\* The Get* of the width of the Put* p.
GetOf(p) ==
    CASE p = "PutUInt16" -> "GetUInt16"
      [] p = "PutUInt32" -> "GetUInt32"
      [] p = "PutUInt64" -> "GetUInt64"
      [] OTHER -> "none"

SizeOf(op) ==
    CASE op \in {"WriteInt8", "WriteBoolean", "ReadInt8", "ReadBoolean"} -> SIZEOF_1_BYTE
      [] op \in {"WriteInt16", "WriteUInt16", "ReadInt16", "ReadUInt16",
                 "PutUInt16", "GetUInt16"} -> SIZEOF_2_BYTE
      [] op \in {"WriteInt32", "WriteUInt32", "WriteFloat32", "ReadInt32",
                 "ReadUInt32", "ReadFloat32", "PutUInt32", "GetUInt32"} -> SIZEOF_4_BYTE
      [] op \in {"WriteInt64", "WriteUInt64", "WriteFloat64", "ReadInt64",
                 "ReadUInt64", "ReadFloat64", "PutUInt64", "GetUInt64"} -> SIZEOF_8_BYTE
      [] OTHER -> 0

\* The caller reads nothing back.
NoRt == [stage |-> 0, op |-> "none", value |-> <<>>, at |-> 0, order |-> "none"]

\* No goroutine writes to the buffer beside the caller.
NoRace == [w |-> <<>>, raced |-> FALSE, window |-> FALSE]

\* The caller runs no scenario.
NoScenario ==
    [phase |-> "off", dirty |-> FALSE, log |-> <<>>, sum |-> 0, pos |-> 0, next |-> 0]

\* The read that reads back what the write w of the scenario wrote.
ReadMatches(op, args, w) ==
    \/ w.op \in PrimitiveWrites /\ op = ReadOf(w.op)
    \/ w.op = "WriteString" /\ op = "ReadString" /\ args = <<Len(w.value)>>
    \/ /\ w.op = "WriteBytes" /\ op = "ReadBytes"
       /\ Len(args[1]) = Len(w.value)
       /\ args[2] \in {-1, Len(w.value)}

\* The calls of the scenario (the loop body of BenchmarkByteBuffer): on a buffer that
\* one earlier write may have dirtied, Reset; then at most MaxWrites writes; then
\* SetPosition(0); then the reads of what was written, in the order of the writes.
ScenarioCall(op, args) ==
    \/ scn.phase = "start" /\ op = "Reset"
    \/ scn.phase = "start" /\ op \in Writes /\ ~scn.dirty
    \/ scn.phase = "write" /\ op \in Writes /\ Len(scn.log) < MaxWrites
    \/ scn.phase = "write" /\ op = "SetPosition" /\ args = <<0>>
    \/ /\ scn.phase = "read"
       /\ scn.next <= Len(scn.log)
       /\ ReadMatches(op, args, scn.log[scn.next])

\* The scenario after the call: the log of the successful writes with the bytes they
\* took, the position when the writes were over, the next write to read back.
ScenarioAfter(op, args, err) ==
    IF scn.phase = "start"
    THEN IF op = "Reset"
         THEN [scn EXCEPT !.phase = "write"]
         ELSE [scn EXCEPT !.dirty = TRUE]
    ELSE IF scn.phase = "write"
    THEN IF op = "SetPosition"
         THEN [scn EXCEPT !.phase = "read", !.pos = offset, !.next = 1]
         ELSE IF err = Nil
         THEN [scn EXCEPT
                 !.log = Append(@, [op |-> op, value |-> args[1]]),
                 !.sum = @ + (IF op \in PrimitiveWrites
                              THEN SizeOf(op) ELSE Len(args[1]))]
         ELSE scn
    ELSE IF scn.phase = "read"
    THEN [scn EXCEPT !.next = @ + 1]
    ELSE scn

\* The calls made on the large buffer.
WideOps ==
    {"SetPosition", "Reset", "SetOrder", "WriteInt8", "WriteBoolean", "ReadInt8",
     "ReadBoolean", "WriteInt64", "WriteUInt64", "WriteFloat64", "ReadInt64",
     "ReadUInt64", "ReadFloat64", "PutUInt64", "GetUInt64", "WriteInt32",
     "WriteUInt32", "WriteFloat32", "ReadInt32", "ReadUInt32", "ReadFloat32",
     "PutUInt32", "GetUInt32"}

\* The caller makes its next call once it has looked at the results of the last
\* one, unless that call panicked: the panic ends the caller's use of the buffer.
\* A caller that runs the scenario makes the calls of the scenario. Otherwise, on
\* the large buffer it makes MaxOps calls of WideOps, and a caller that is reading a
\* value back (rt) makes the calls of the round trip (not counted in ops) and no
\* other: SetOrder if it wants the other byte order, then either SetPosition to where
\* it wrote the value and the read of the value's type, or, for a value it has Put,
\* the Get* at the offset of the Put*. Reset is also called straight after a Reset.
CanCall(op, args) ==
    /\ last = NoCall \/ (op = "Reset" /\ last.op = "Reset" /\ scn.phase = "off")
    /\ IF scn.phase # "off"
       THEN ScenarioCall(op, args)
       ELSE /\ cap > NarrowCap =>
                    /\ ops < MaxOps \/ rt.stage > 0
                    /\ op \in WideOps
            /\ \/ rt.stage = 0
               \/ rt.stage = 1 /\ op = "SetOrder" /\ order = rt.order /\ args # <<order>>
               \/ rt.stage = 1 /\ op = "SetPosition" /\ args = <<rt.at>>
               \/ rt.stage = 1 /\ op = GetOf(rt.op) /\ args = <<rt.at>>
               \/ rt.stage = 2 /\ op = ReadOf(rt.op)

\* The bytes asked of the writes since the buffer was empty, as long as nothing but
\* writes were called and the bytes asked for fit the capacity; -1 from then on.
WrittenAfter(op, args) ==
    IF op = "Reset" THEN 0
    ELSE IF op \in Writes /\ written >= 0
    THEN LET size == IF op \in PrimitiveWrites THEN SizeOf(op) ELSE Len(args[1])
         IN  IF written + size <= cap THEN written + size ELSE -1
    ELSE -1

\* The storage indices stored to since the last Reset: a successful write stores to
\* the bytes it reserved at the position, a successful Put* to those at its offset.
SinceAfter(op, args, err) ==
    IF op = "Reset" THEN {}
    ELSE IF err # Nil THEN since
    ELSE IF op \in Writes
    THEN LET size == IF op \in PrimitiveWrites THEN SizeOf(op) ELSE Len(args[1])
         IN  since \cup (offset..(offset + size - 1))
    ELSE IF op \in Puts
    THEN since \cup (args[1]..(args[1] + SizeOf(op) - 1))
    ELSE since

\* A call of op with args returns ret and err (Panic: it does not return).
Call(op, args, ret, err) ==
    /\ last' = [op |-> op, args |-> args, ret |-> ret, err |-> err, pre |-> Pre]
    /\ ops' = IF cap > NarrowCap /\ scn.phase = "off" /\ rt.stage = 0
              THEN ops + 1 ELSE ops
    /\ scn' = ScenarioAfter(op, args, err)
    /\ UNCHANGED race
    /\ written' = WrittenAfter(op, args)
    /\ since' = SinceAfter(op, args, err)
    /\ rt' = IF rt.stage = 1 /\ err = Nil
             THEN (IF op = "SetOrder" THEN rt
                   ELSE IF op = "SetPosition" THEN [rt EXCEPT !.stage = 2]
                   ELSE NoRt)
             ELSE NoRt

Init ==
    /\ \E c \in Caps, o \in Orders : NewByteBuffer(c, o)
    /\ last = NoCall
    /\ ops = 0
    /\ written = 0
    /\ rt = NoRt
    /\ scn = NoScenario
    /\ race = NoRace
    /\ since = {}

\* The buffer of the benchmark, at a capacity that holds three of its values, with
\* the caller about to run the scenario.
InitScenario ==
    /\ \E o \in Orders : NewByteBuffer(ScenarioCap, o)
    /\ last = NoCall
    /\ ops = 0
    /\ written = 0
    /\ rt = NoRt
    /\ scn = [NoScenario EXCEPT !.phase = "start"]
    /\ race = NoRace
    /\ since = {}

\* Length, Cap, Position, Buffer and Data: the views of the state.
Length == length
Cap == cap
Position == offset
Buffer == buf
Data == Slice(buf, 0, length)

\* A SetPosition that accepts a position up to the capacity and raises the valid
\* length to it.
SetPositionExtends(asbOffset) ==
    /\ CanCall("SetPosition", <<asbOffset>>)
    /\ IF asbOffset < 0 \/ asbOffset > cap
       THEN /\ UNCHANGED <<offset, length>>
            /\ Call("SetPosition", <<asbOffset>>, <<>>, ErrorPositionOverflow)
       ELSE /\ offset' = asbOffset
            /\ length' = IF asbOffset > length THEN asbOffset ELSE length
            /\ Call("SetPosition", <<asbOffset>>, <<>>, Nil)
    /\ UNCHANGED <<cap, buf, order>>

\* A SetPosition that bounds the position by the capacity.
SetPositionWithinCap(asbOffset) ==
    /\ CanCall("SetPosition", <<asbOffset>>)
    /\ IF asbOffset < 0 \/ asbOffset > cap
       THEN /\ UNCHANGED offset
            /\ Call("SetPosition", <<asbOffset>>, <<>>, ErrorPositionOverflow)
       ELSE /\ offset' = asbOffset
            /\ Call("SetPosition", <<asbOffset>>, <<>>, Nil)
    /\ UNCHANGED <<cap, buf, length, order>>

SetPosition(asbOffset) ==
    /\ CanCall("SetPosition", <<asbOffset>>)
    /\ IF asbOffset < 0 \/ asbOffset > length
       THEN /\ UNCHANGED offset
            /\ Call("SetPosition", <<asbOffset>>, <<>>, ErrorPositionOverflow)
       ELSE /\ offset' = asbOffset
            /\ Call("SetPosition", <<asbOffset>>, <<>>, Nil)
    /\ UNCHANGED <<cap, buf, length, order>>

\* A Reset that clears the valid length and keeps the position.
ResetKeepsPosition ==
    /\ CanCall("Reset", <<>>)
    /\ length' = 0
    /\ Call("Reset", <<>>, <<>>, Nil)
    /\ UNCHANGED <<cap, buf, order, offset>>

\* A Reset that rewinds the position and keeps the valid length.
ResetRewindsOnly ==
    /\ CanCall("Reset", <<>>)
    /\ offset' = 0
    /\ Call("Reset", <<>>, <<>>, Nil)
    /\ UNCHANGED <<cap, buf, order, length>>

Reset ==
    /\ CanCall("Reset", <<>>)
    /\ length' = 0
    /\ offset' = 0
    /\ Call("Reset", <<>>, <<>>, Nil)
    /\ UNCHANGED <<cap, buf, order>>

\* A SetOrder with a value receiver: the order is set on a copy of the buffer.
SetOrderOnCopy(o) ==
    /\ CanCall("SetOrder", <<o>>)
    /\ Call("SetOrder", <<o>>, <<>>, Nil)
    /\ UNCHANGED <<cap, buf, length, offset, order>>

SetOrder(o) ==
    /\ CanCall("SetOrder", <<o>>)
    /\ order' = o
    /\ Call("SetOrder", <<o>>, <<>>, Nil)
    /\ UNCHANGED <<cap, buf, length, offset>>

\* An applyWrite that sets the valid length to the new position even when it is
\* below the valid length.
applyWriteTruncates(size) ==
    IF IntAdd(offset, size) > cap
    THEN [off |-> offset, ok |-> FALSE, offset |-> offset, length |-> length]
    ELSE [off |-> offset, ok |-> TRUE, offset |-> IntAdd(offset, size),
          length |-> IntAdd(offset, size)]

\* An applyWrite that moves the position before it checks the capacity.
applyWriteAdvanceFirst(size) ==
    IF IntAdd(offset, size) > cap
    THEN [off |-> offset, ok |-> FALSE, offset |-> IntAdd(offset, size),
          length |-> length]
    ELSE [off |-> offset, ok |-> TRUE, offset |-> IntAdd(offset, size),
          length |-> IF IntAdd(offset, size) > length
                     THEN IntAdd(offset, size) ELSE length]

\* An applyWrite that refuses the write that fills the buffer exactly.
applyWriteRefusesExactFit(size) ==
    IF IntAdd(offset, size) >= cap
    THEN [off |-> offset, ok |-> FALSE, offset |-> offset, length |-> length]
    ELSE [off |-> offset, ok |-> TRUE, offset |-> IntAdd(offset, size),
          length |-> IF IntAdd(offset, size) > length
                     THEN IntAdd(offset, size) ELSE length]

\* applyWrite(size): the write offset, whether the write fits, and the position and
\* the valid length it leaves.
applyWrite(size) ==
    IF IntAdd(offset, size) > cap
    THEN [off |-> offset, ok |-> FALSE, offset |-> offset, length |-> length]
    ELSE [off |-> offset, ok |-> TRUE, offset |-> IntAdd(offset, size),
          length |-> IF IntAdd(offset, size) > length
                     THEN IntAdd(offset, size) ELSE length]

\* An applyRead that bounds the read by the capacity.
applyReadWithinCap(size) ==
    IF IntAdd(offset, size) > cap
    THEN [off |-> offset, ok |-> FALSE, offset |-> offset]
    ELSE [off |-> offset, ok |-> TRUE, offset |-> IntAdd(offset, size)]

\* An applyRead that leaves the position where it was.
applyReadKeepsPosition(size) ==
    IF IntAdd(offset, size) > length
    THEN [off |-> offset, ok |-> FALSE, offset |-> offset]
    ELSE [off |-> offset, ok |-> TRUE, offset |-> offset]

\* applyRead(size): the read offset, whether size bytes are valid from it, and the
\* position it leaves.
applyRead(size) ==
    IF IntAdd(offset, size) > length
    THEN [off |-> offset, ok |-> FALSE, offset |-> offset]
    ELSE [off |-> offset, ok |-> TRUE, offset |-> IntAdd(offset, size)]

\* buf.buf[off:] holds size bytes: neither the slice expression nor an access to its
\* first size bytes panics.
AccessOK(off, size, c) == 0 <= off /\ off <= c /\ size <= c - off

\* A Write* body that, when the bytes do not fit, reallocates the storage to the
\* size the write needs instead of refusing the write.
WriteGrows(op, args, size, bytes, retOK, retFail) ==
    LET need == IntAdd(offset, size)
        c == IF need > cap THEN need ELSE cap
        grown == [i \in 0..(c - 1) |-> IF i < cap THEN buf[i] ELSE 0]
    IN  /\ CanCall(op, args)
        /\ cap' = c
        /\ offset' = need
        /\ length' = IF need > length THEN need ELSE length
        /\ buf' = Store(grown, offset, bytes)
        /\ Call(op, args, retOK, Nil)
        /\ UNCHANGED order

\* The body the Write* methods share: reserve size bytes with applyWrite, which
\* moves the position and the valid length, then store bytes at the reserved offset.
\* retOK and retFail are the results beside the error.
Write(op, args, size, bytes, retOK, retFail) ==
    LET w == applyWrite(size) IN
    /\ CanCall(op, args)
    /\ offset' = w.offset
    /\ length' = w.length
    /\ IF ~w.ok
       THEN /\ UNCHANGED buf
            /\ Call(op, args, retFail, ErrorWriteOverflow)
       ELSE IF AccessOK(w.off, size, cap)
       THEN /\ buf' = Store(buf, w.off, bytes)
            /\ Call(op, args, retOK, Nil)
       ELSE /\ UNCHANGED buf
            /\ Call(op, args, <<>>, Panic)
    /\ UNCHANGED <<cap, order>>

WriteInt8(value) ==
    Write("WriteInt8", <<value>>, SIZEOF_1_BYTE, <<value>>, <<>>, <<>>)

WriteBoolean(value) ==
    Write("WriteBoolean", <<value>>, SIZEOF_1_BYTE,
          <<IF value THEN TRUE_BYTE ELSE FALSE_BYTE>>, <<>>, <<>>)

\* A WriteBytes that writes as many bytes of value as the capacity has room for and
\* returns their count.
WriteBytesPartial(value) ==
    LET room == IF Len(value) <= cap - offset THEN Len(value) ELSE cap - offset IN
    Write("WriteBytes", <<value>>, room, SubSeq(value, 1, room), <<room>>, <<0>>)

WriteBytes(value) ==
    Write("WriteBytes", <<value>>, Len(value), value, <<Len(value)>>, <<0>>)

WriteString(value) ==
    Write("WriteString", <<value>>, Len(value), value, <<Len(value)>>, <<0>>)

WriteInt16(value) ==
    Write("WriteInt16", <<value>>, SIZEOF_2_BYTE,
          PutUint(order, SIZEOF_2_BYTE, <<U16ofI16(value)>>), <<>>, <<>>)

WriteUInt16(value) ==
    Write("WriteUInt16", <<value>>, SIZEOF_2_BYTE,
          PutUint(order, SIZEOF_2_BYTE, <<value>>), <<>>, <<>>)

WriteInt32(value) ==
    Write("WriteInt32", <<value>>, SIZEOF_4_BYTE,
          PutUint(order, SIZEOF_4_BYTE, U32ofI32(value)), <<>>, <<>>)

WriteUInt32(value) ==
    Write("WriteUInt32", <<value>>, SIZEOF_4_BYTE,
          PutUint(order, SIZEOF_4_BYTE, value), <<>>, <<>>)

WriteInt64(value) ==
    Write("WriteInt64", <<value>>, SIZEOF_8_BYTE,
          PutUint(order, SIZEOF_8_BYTE, U64ofI64(value)), <<>>, <<>>)

WriteUInt64(value) ==
    Write("WriteUInt64", <<value>>, SIZEOF_8_BYTE,
          PutUint(order, SIZEOF_8_BYTE, value), <<>>, <<>>)

WriteFloat32(value) ==
    Write("WriteFloat32", <<value>>, SIZEOF_4_BYTE,
          PutUint(order, SIZEOF_4_BYTE, Float32bits(value)), <<>>, <<>>)

WriteFloat64(value) ==
    Write("WriteFloat64", <<value>>, SIZEOF_8_BYTE,
          PutUint(order, SIZEOF_8_BYTE, Float64bits(value)), <<>>, <<>>)

\* The body the fixed-size Read* methods share: reserve size bytes with applyRead,
\* which moves the position, then return value, the bytes at the reserved offset
\* decoded. zero is returned with the error.
Read(op, size, value, zero) ==
    LET r == applyRead(size) IN
    /\ CanCall(op, <<>>)
    /\ offset' = r.offset
    /\ IF ~r.ok
       THEN Call(op, <<>>, <<zero>>, ErrorReadOverflow)
       ELSE IF AccessOK(r.off, size, cap)
       THEN Call(op, <<>>, <<value>>, Nil)
       ELSE Call(op, <<>>, <<>>, Panic)
    /\ UNCHANGED <<cap, buf, length, order>>

ReadInt8 ==
    Read("ReadInt8", SIZEOF_1_BYTE, buf[offset], 0)

ReadBoolean ==
    Read("ReadBoolean", SIZEOF_1_BYTE, buf[offset] = TRUE_BYTE, FALSE)

ReadInt16 ==
    Read("ReadInt16", SIZEOF_2_BYTE,
         I16ofU16(Uint(order, SIZEOF_2_BYTE, buf, offset)[1]), 0)

ReadUInt16 ==
    Read("ReadUInt16", SIZEOF_2_BYTE, Uint(order, SIZEOF_2_BYTE, buf, offset)[1], 0)

ReadInt32 ==
    Read("ReadInt32", SIZEOF_4_BYTE,
         I32ofU32(Uint(order, SIZEOF_4_BYTE, buf, offset)), 0)

ReadUInt32 ==
    Read("ReadUInt32", SIZEOF_4_BYTE, Uint(order, SIZEOF_4_BYTE, buf, offset),
         <<0, 0>>)

ReadInt64 ==
    Read("ReadInt64", SIZEOF_8_BYTE,
         I64ofU64(Uint(order, SIZEOF_8_BYTE, buf, offset)),
         [hi |-> 0, lo |-> <<0, 0>>])

ReadUInt64 ==
    Read("ReadUInt64", SIZEOF_8_BYTE, Uint(order, SIZEOF_8_BYTE, buf, offset),
         <<0, 0, 0, 0>>)

ReadFloat32 ==
    Read("ReadFloat32", SIZEOF_4_BYTE,
         Float32frombits(Uint(order, SIZEOF_4_BYTE, buf, offset)),
         [sign |-> 0, exp |-> 0, mant |-> 0])

ReadFloat64 ==
    Read("ReadFloat64", SIZEOF_8_BYTE,
         Float64frombits(Uint(order, SIZEOF_8_BYTE, buf, offset)),
         [sign |-> 0, exp |-> 0, mant |-> <<0, 0, 0, 0>>])

\* The smallest element of a non-empty set of integers.
Min(S) == CHOOSE x \in S : \A y \in S : x <= y

\* A ReadString whose scan for the zero byte runs to the capacity.
ReadStringScansToCap(n) ==
    /\ CanCall("ReadString", <<n>>)
    /\ IF n = 0
       THEN /\ UNCHANGED offset
            /\ Call("ReadString", <<n>>, <<<<>>>>, Nil)
       ELSE IF n <= 0
       THEN IF offset < length /\ offset < 0
            THEN /\ UNCHANGED offset
                 /\ Call("ReadString", <<n>>, <<>>, Panic)
            ELSE LET zeros == {i \in offset..(cap - 1) : buf[i] = 0}
                     endIndex == IF zeros = {} THEN length ELSE Min(zeros)
                 IN  IF SliceOK(offset, endIndex, cap)
                     THEN /\ offset' = endIndex
                          /\ Call("ReadString", <<n>>,
                                  <<Slice(buf, offset, endIndex)>>, Nil)
                     ELSE /\ offset' = endIndex
                          /\ Call("ReadString", <<n>>, <<>>, Panic)
       ELSE IF IntAdd(offset, n) > length
       THEN /\ UNCHANGED offset
            /\ Call("ReadString", <<n>>, <<<<>>>>, ErrorReadOverflow)
       ELSE LET r == applyRead(n) IN
            /\ offset' = r.offset
            /\ IF ~r.ok
               THEN Call("ReadString", <<n>>, <<<<>>>>, ErrorReadOverflow)
               ELSE IF SliceOK(r.off, IntAdd(r.off, n), cap)
               THEN Call("ReadString", <<n>>,
                         <<Slice(buf, r.off, IntAdd(r.off, n))>>, Nil)
               ELSE Call("ReadString", <<n>>, <<>>, Panic)
    /\ UNCHANGED <<cap, buf, length, order>>

\* ReadString(n): nothing for n = 0; for n < 0 the bytes up to the first zero byte
\* (or to the valid length), the position left at endIndex; for n > 0 the next n
\* bytes. The loop's first access buf.buf[i] panics on a negative position.
ReadString(n) ==
    /\ CanCall("ReadString", <<n>>)
    /\ IF n = 0
       THEN /\ UNCHANGED offset
            /\ Call("ReadString", <<n>>, <<<<>>>>, Nil)
       ELSE IF n <= 0
       THEN IF offset < length /\ offset < 0
            THEN /\ UNCHANGED offset
                 /\ Call("ReadString", <<n>>, <<>>, Panic)
            ELSE LET zeros == {i \in offset..(length - 1) : buf[i] = 0}
                     endIndex == IF zeros = {} THEN length ELSE Min(zeros)
                 IN  IF SliceOK(offset, endIndex, cap)
                     THEN /\ offset' = endIndex
                          /\ Call("ReadString", <<n>>,
                                  <<Slice(buf, offset, endIndex)>>, Nil)
                     ELSE /\ offset' = endIndex
                          /\ Call("ReadString", <<n>>, <<>>, Panic)
       ELSE IF IntAdd(offset, n) > length
       THEN /\ UNCHANGED offset
            /\ Call("ReadString", <<n>>, <<<<>>>>, ErrorReadOverflow)
       ELSE LET r == applyRead(n) IN
            /\ offset' = r.offset
            /\ IF ~r.ok
               THEN Call("ReadString", <<n>>, <<<<>>>>, ErrorReadOverflow)
               ELSE IF SliceOK(r.off, IntAdd(r.off, n), cap)
               THEN Call("ReadString", <<n>>,
                         <<Slice(buf, r.off, IntAdd(r.off, n))>>, Nil)
               ELSE Call("ReadString", <<n>>, <<>>, Panic)
    /\ UNCHANGED <<cap, buf, length, order>>

\* A ReadBytes that takes a negative length for the length 0.
ReadBytesNegativeIsZero(value, n) ==
    /\ CanCall("ReadBytes", <<value, n>>)
    /\ IF n <= 0
       THEN /\ UNCHANGED offset
            /\ Call("ReadBytes", <<value, n>>, <<0, value>>, Nil)
       ELSE IF n > 0 /\ n > Len(value)
       THEN /\ UNCHANGED offset
            /\ Call("ReadBytes", <<value, n>>, <<0, value>>, ErrorReadOverflow)
       ELSE LET len == IF n < 0 THEN Len(value) ELSE n
                r == applyRead(len)
            IN  /\ offset' = r.offset
                /\ IF ~r.ok
                   THEN Call("ReadBytes", <<value, n>>, <<0, value>>, ErrorReadOverflow)
                   ELSE IF SliceOK(r.off, IntAdd(r.off, len), cap)
                   THEN Call("ReadBytes", <<value, n>>,
                             <<len, Slice(buf, r.off, IntAdd(r.off, len))
                                    \o SubSeq(value, len + 1, Len(value))>>, Nil)
                   ELSE Call("ReadBytes", <<value, n>>, <<>>, Panic)
    /\ UNCHANGED <<cap, buf, length, order>>

\* A ReadBytes that takes the length 0, like a negative one, for the length of the
\* destination.
ReadBytesZeroIsDestination(value, n) ==
    /\ CanCall("ReadBytes", <<value, n>>)
    /\ IF n > 0 /\ n > Len(value)
       THEN /\ UNCHANGED offset
            /\ Call("ReadBytes", <<value, n>>, <<0, value>>, ErrorReadOverflow)
       ELSE LET len == IF n <= 0 THEN Len(value) ELSE n
                r == applyRead(len)
            IN  /\ offset' = r.offset
                /\ IF ~r.ok
                   THEN Call("ReadBytes", <<value, n>>, <<0, value>>, ErrorReadOverflow)
                   ELSE IF SliceOK(r.off, IntAdd(r.off, len), cap)
                   THEN Call("ReadBytes", <<value, n>>,
                             <<len, Slice(buf, r.off, IntAdd(r.off, len))
                                    \o SubSeq(value, len + 1, Len(value))>>, Nil)
                   ELSE Call("ReadBytes", <<value, n>>, <<>>, Panic)
    /\ UNCHANGED <<cap, buf, length, order>>

\* ReadBytes(value, n): nothing for n = 0; len(value) bytes for n < 0; an error for
\* n > len(value); else the next n bytes copied into value. Returns the count and
\* (here) the destination as the call leaves it.
ReadBytes(value, n) ==
    /\ CanCall("ReadBytes", <<value, n>>)
    /\ IF n = 0
       THEN /\ UNCHANGED offset
            /\ Call("ReadBytes", <<value, n>>, <<0, value>>, Nil)
       ELSE IF n > 0 /\ n > Len(value)
       THEN /\ UNCHANGED offset
            /\ Call("ReadBytes", <<value, n>>, <<0, value>>, ErrorReadOverflow)
       ELSE LET len == IF n < 0 THEN Len(value) ELSE n
                r == applyRead(len)
            IN  /\ offset' = r.offset
                /\ IF ~r.ok
                   THEN Call("ReadBytes", <<value, n>>, <<0, value>>, ErrorReadOverflow)
                   ELSE IF SliceOK(r.off, IntAdd(r.off, len), cap)
                   THEN Call("ReadBytes", <<value, n>>,
                             <<len, Slice(buf, r.off, IntAdd(r.off, len))
                                    \o SubSeq(value, len + 1, Len(value))>>, Nil)
                   ELSE Call("ReadBytes", <<value, n>>, <<>>, Panic)
    /\ UNCHANGED <<cap, buf, length, order>>

\* A Put* that moves the position past the bytes it stores.
PutMovesPosition(op, size, off, value, limbs) ==
    /\ CanCall(op, <<off, value>>)
    /\ IF off < 0 \/ IntAdd(off, size) > length
       THEN /\ UNCHANGED <<buf, offset>>
            /\ Call(op, <<off, value>>, <<>>, ErrorPositionOverflow)
       ELSE IF AccessOK(off, size, cap)
       THEN /\ buf' = Store(buf, off, PutUint(order, size, limbs))
            /\ offset' = off + size
            /\ Call(op, <<off, value>>, <<>>, Nil)
       ELSE /\ UNCHANGED <<buf, offset>>
            /\ Call(op, <<off, value>>, <<>>, Panic)
    /\ UNCHANGED <<cap, length, order>>

\* A Put* that stores the value at the position instead of at its offset.
PutAtPosition(op, size, off, value, limbs) ==
    /\ CanCall(op, <<off, value>>)
    /\ IF off < 0 \/ IntAdd(off, size) > length
       THEN /\ UNCHANGED buf
            /\ Call(op, <<off, value>>, <<>>, ErrorPositionOverflow)
       ELSE IF AccessOK(off, size, cap)
       THEN /\ buf' = Store(buf, offset, PutUint(order, size, limbs))
            /\ Call(op, <<off, value>>, <<>>, Nil)
       ELSE /\ UNCHANGED buf
            /\ Call(op, <<off, value>>, <<>>, Panic)
    /\ UNCHANGED <<cap, length, offset, order>>

\* The body PutUInt16/32/64 share: the offset is checked against the valid length
\* (the sum wraps), then order stores value, given by its limbs, into buf.buf[off:].
Put(op, size, off, value, limbs) ==
    /\ CanCall(op, <<off, value>>)
    /\ IF off < 0 \/ IntAdd(off, size) > length
       THEN /\ UNCHANGED buf
            /\ Call(op, <<off, value>>, <<>>, ErrorPositionOverflow)
       ELSE IF AccessOK(off, size, cap)
       THEN /\ buf' = Store(buf, off, PutUint(order, size, limbs))
            /\ Call(op, <<off, value>>, <<>>, Nil)
       ELSE /\ UNCHANGED buf
            /\ Call(op, <<off, value>>, <<>>, Panic)
    /\ UNCHANGED <<cap, length, offset, order>>

PutUInt16(off, value) == Put("PutUInt16", SIZEOF_2_BYTE, off, value, <<value>>)
PutUInt32(off, value) == Put("PutUInt32", SIZEOF_4_BYTE, off, value, value)
PutUInt64(off, value) == Put("PutUInt64", SIZEOF_8_BYTE, off, value, value)

\* The body GetUInt16/32/64 share: the offset is checked as in Put*, then value,
\* what order decodes from buf.buf[off:], is returned. The zero value is returned
\* with the error.
Get(op, size, off, value, zero) ==
    /\ CanCall(op, <<off>>)
    /\ IF off < 0 \/ IntAdd(off, size) > length
       THEN Call(op, <<off>>, <<zero>>, ErrorPositionOverflow)
       ELSE IF AccessOK(off, size, cap)
       THEN Call(op, <<off>>, <<value>>, Nil)
       ELSE Call(op, <<off>>, <<>>, Panic)
    /\ UNCHANGED <<cap, buf, length, offset, order>>

GetUInt16(off) ==
    Get("GetUInt16", SIZEOF_2_BYTE, off, Uint(order, SIZEOF_2_BYTE, buf, off)[1], 0)

GetUInt32(off) ==
    Get("GetUInt32", SIZEOF_4_BYTE, off, Uint(order, SIZEOF_4_BYTE, buf, off), <<0, 0>>)

GetUInt64(off) ==
    Get("GetUInt64", SIZEOF_8_BYTE, off, Uint(order, SIZEOF_8_BYTE, buf, off),
        <<0, 0, 0, 0>>)

-----------------------------------------------------------------------------
(* The buffer under any sequence of calls *)

\* The caller has looked at the results of its last call and drops them; the
\* buffer is as the call left it.
Return ==
    /\ last # NoCall
    /\ last.err # Panic
    /\ last' = NoCall
    /\ UNCHANGED <<cap, buf, length, offset, order, ops, written, rt, scn, race, since>>

\* The caller has written a value of a primitive type, or has Put one, and sets out
\* to read it back.
ReadBack ==
    /\ scn.phase = "off"
    /\ last.op \in PrimitiveWrites \cup Puts
    /\ last.err = Nil
    /\ rt' = IF last.op \in Puts
             THEN [stage |-> 1, op |-> last.op, value |-> last.args[2],
                   at |-> last.args[1], order |-> order]
             ELSE [stage |-> 1, op |-> last.op, value |-> last.args[1],
                   at |-> last.pre.offset, order |-> order]
    /\ last' = NoCall
    /\ UNCHANGED <<cap, buf, length, offset, order, ops, written, scn, race, since>>

Next ==
    \/ \E p \in Positions : SetPosition(p)
    \/ Reset
    \/ \E o \in Orders : SetOrder(o)
    \/ \E v \in ByteVals : WriteInt8(v)
    \/ \E v \in BoolVals : WriteBoolean(v)
    \/ \E v \in StringVals : WriteString(v)
    \/ \E v \in BytesVals : WriteBytes(v)
    \/ \E v \in Int16Vals : WriteInt16(v)
    \/ \E v \in UInt16Vals : WriteUInt16(v)
    \/ \E v \in Int32Vals : WriteInt32(v)
    \/ \E v \in UInt32Vals : WriteUInt32(v)
    \/ \E v \in Int64Vals : WriteInt64(v)
    \/ \E v \in UInt64Vals : WriteUInt64(v)
    \/ \E v \in Float32Vals : WriteFloat32(v)
    \/ \E v \in Float64Vals : WriteFloat64(v)
    \/ ReadInt8
    \/ ReadBoolean
    \/ \E n \in StringLengths : ReadString(n)
    \/ \E d \in DestVals, n \in BytesLengths : ReadBytes(d, n)
    \/ ReadInt16
    \/ ReadUInt16
    \/ ReadInt32
    \/ ReadUInt32
    \/ ReadInt64
    \/ ReadUInt64
    \/ ReadFloat32
    \/ ReadFloat64
    \/ \E off \in Offsets(SIZEOF_2_BYTE), v \in UInt16Vals : PutUInt16(off, v)
    \/ \E off \in Offsets(SIZEOF_4_BYTE), v \in UInt32Vals : PutUInt32(off, v)
    \/ \E off \in Offsets(SIZEOF_8_BYTE), v \in UInt64Vals : PutUInt64(off, v)
    \/ \E off \in Offsets(SIZEOF_2_BYTE) : GetUInt16(off)
    \/ \E off \in Offsets(SIZEOF_4_BYTE) : GetUInt32(off)
    \/ \E off \in Offsets(SIZEOF_8_BYTE) : GetUInt64(off)
    \/ Return
    \/ ReadBack

Spec == Init /\ [][Next]_vars

-----------------------------------------------------------------------------
(* The buffer under the write-then-read-back scenario *)

NextScenario ==
    \/ Reset
    \/ \E p \in {0} : SetPosition(p)
    \/ \E v \in BenchInt8Vals : WriteInt8(v)
    \/ \E v \in BenchBoolVals : WriteBoolean(v)
    \/ \E v \in BenchStringVals : WriteString(v)
    \/ \E v \in BenchBytesVals : WriteBytes(v)
    \/ \E v \in BenchInt16Vals : WriteInt16(v)
    \/ \E v \in UInt16Vals : WriteUInt16(v)
    \/ \E v \in BenchInt32Vals : WriteInt32(v)
    \/ \E v \in UInt32Vals : WriteUInt32(v)
    \/ \E v \in Int64Vals : WriteInt64(v)
    \/ \E v \in UInt64Vals : WriteUInt64(v)
    \/ \E v \in BenchFloat32Vals : WriteFloat32(v)
    \/ \E v \in BenchFloat64Vals : WriteFloat64(v)
    \/ ReadInt8
    \/ ReadBoolean
    \/ \E n \in BenchLengths : ReadString(n)
    \/ \E d \in BenchDestVals, n \in BenchLengths : ReadBytes(d, n)
    \/ ReadInt16
    \/ ReadUInt16
    \/ ReadInt32
    \/ ReadUInt32
    \/ ReadInt64
    \/ ReadUInt64
    \/ ReadFloat32
    \/ ReadFloat64
    \/ Return

SpecScenario == InitScenario /\ [][NextScenario]_vars

-----------------------------------------------------------------------------
(* The buffer under two goroutines that call WriteBytes without serialization *)

\* The goroutines, and the lengths of the values they write. Goroutine t writes
\* bytes equal to t.
Writers == {1, 2}
RaceSizes == {1, 2, 4}
RaceValue(t) == [k \in 1..race.w[t].size |-> t]

\* A new buffer and two goroutines, each about to call WriteBytes.
InitRace ==
    /\ \E c \in Caps, o \in Orders : NewByteBuffer(c, o)
    /\ last = NoCall
    /\ ops = 0
    /\ written = 0
    /\ rt = NoRt
    /\ scn = NoScenario
    /\ \E s1, s2 \in RaceSizes :
        race = [w |-> <<[pc |-> "call", size |-> s1, off |-> 0, ok |-> FALSE, tmp |-> 0],
                        [pc |-> "call", size |-> s2, off |-> 0, ok |-> FALSE, tmp |-> 0]>>,
                raced |-> FALSE, window |-> FALSE]
    /\ since = {}

\* Goroutine t takes a step of its call: pc, off, ok and tmp become as given, the
\* rest of the race record follows. raced: a goroutine has taken a step while the
\* other was inside its call. window: a goroutine has passed the capacity check
\* while the other had passed it and not yet stored the advanced position.
WriterStep(t, pc, off, ok, tmp) ==
    LET o == 3 - t IN
    race' = [w |-> [race.w EXCEPT ![t] = [pc |-> pc, size |-> race.w[t].size,
                                          off |-> off, ok |-> ok, tmp |-> tmp]],
             raced |-> race.raced \/ race.w[o].pc \notin {"call", "done"},
             window |-> race.window
                        \/ (race.w[t].pc = "check" /\ ok
                                /\ race.w[o].pc \in {"addLoad", "addStore"})]

\* The guard the steps of goroutine t share, and what they all leave unchanged.
WriterAt(t, pc) ==
    /\ race.w # <<>>
    /\ race.w[t].pc = pc
    /\ UNCHANGED <<cap, order, last, ops, written, rt, scn, since>>

\* applyWrite: offset = buf.offset
WriterLoadOffset(t) ==
    /\ WriterAt(t, "call")
    /\ WriterStep(t, "check", offset, FALSE, 0)
    /\ UNCHANGED <<buf, length, offset>>

\* applyWrite: if buf.offset+size > buf.cap { ok = false; return }; ok = true
WriterCheck(t) ==
    /\ WriterAt(t, "check")
    /\ IF IntAdd(offset, race.w[t].size) > cap
       THEN WriterStep(t, "done", race.w[t].off, FALSE, 0)
       ELSE WriterStep(t, "addLoad", race.w[t].off, TRUE, 0)
    /\ UNCHANGED <<buf, length, offset>>

\* applyWrite: buf.offset += size, the load of buf.offset
WriterAddLoad(t) ==
    /\ WriterAt(t, "addLoad")
    /\ WriterStep(t, "addStore", race.w[t].off, TRUE, offset)
    /\ UNCHANGED <<buf, length, offset>>

\* An advance that is one atomic fetch-and-add whose result gives the write offset.
WriterAddStoreAtomic(t) ==
    /\ WriterAt(t, "addStore")
    /\ offset' = IntAdd(offset, race.w[t].size)
    /\ WriterStep(t, "lenCheck", offset, TRUE, 0)
    /\ UNCHANGED <<buf, length>>

\* applyWrite: buf.offset += size, the store of the sum
WriterAddStore(t) ==
    /\ WriterAt(t, "addStore")
    /\ offset' = IntAdd(race.w[t].tmp, race.w[t].size)
    /\ WriterStep(t, "lenCheck", race.w[t].off, TRUE, 0)
    /\ UNCHANGED <<buf, length>>

\* applyWrite: if buf.offset > buf.length
WriterLenCheck(t) ==
    /\ WriterAt(t, "lenCheck")
    /\ WriterStep(t, IF offset > length THEN "lenStore" ELSE "copy",
                  race.w[t].off, TRUE, 0)
    /\ UNCHANGED <<buf, length, offset>>

\* applyWrite: buf.length = buf.offset
WriterLenStore(t) ==
    /\ WriterAt(t, "lenStore")
    /\ length' = offset
    /\ WriterStep(t, "copy", race.w[t].off, TRUE, 0)
    /\ UNCHANGED <<buf, offset>>

\* WriteBytes: copy(buf.buf[offset:], value); the slice expression panics on an
\* offset beyond the capacity.
WriterCopy(t) ==
    /\ WriterAt(t, "copy")
    /\ IF AccessOK(race.w[t].off, race.w[t].size, cap)
       THEN /\ buf' = Store(buf, race.w[t].off, RaceValue(t))
            /\ WriterStep(t, "done", race.w[t].off, TRUE, 0)
       ELSE /\ UNCHANGED buf
            /\ WriterStep(t, "panic", race.w[t].off, TRUE, 0)
    /\ UNCHANGED <<length, offset>>

NextRace ==
    \E t \in Writers :
        \/ WriterLoadOffset(t)
        \/ WriterCheck(t)
        \/ WriterAddLoad(t)
        \/ WriterAddStore(t)
        \/ WriterLenCheck(t)
        \/ WriterLenStore(t)
        \/ WriterCopy(t)

SpecRace == InitRace /\ [][NextRace]_vars

-----------------------------------------------------------------------------
(* Properties *)

\* The size of the read or write the last call asked for.
LastSize ==
    IF last.op \in {"WriteBytes", "WriteString"} THEN Len(last.args[1])
    ELSE IF last.op = "ReadString" THEN last.args[1]
    ELSE IF last.op = "ReadBytes"
    THEN (IF last.args[2] < 0 THEN Len(last.args[1]) ELSE last.args[2])
    ELSE SizeOf(last.op)

\* a + s > b over the unbounded integers, for s >= 0 (no sum is formed that the
\* machine could not hold).
SumExceeds(a, s, b) == IF a >= 0 THEN s > b - a ELSE a + s > b

\* The last call left the position, the valid length and the storage as they were.
StateUnchanged ==
    /\ offset = last.pre.offset
    /\ length = last.pre.length
    /\ buf = last.pre.buf

\* C1: in every reachable state 0 <= cursor <= validLength <= capacity.
C1_CursorWithinValidLength ==
    0 <= offset /\ offset <= length /\ length <= cap

\* C2: a sequential write of size s called when cursor + s > capacity returns the
\* write-overflow error and changes neither the cursor, the valid length nor any
\* storage byte; WriteBytes and WriteString return the count 0.
C2_WriteOverflowIsNoOp ==
    (last.op \in Writes /\ SumExceeds(last.pre.offset, LastSize, cap)) =>
        /\ last.err = ErrorWriteOverflow
        /\ StateUnchanged
        /\ last.op \in {"WriteBytes", "WriteString"} => last.ret = <<0>>

\* C2 witness: a 4-byte write is refused although some of its bytes would fit.
C2_Witness ==
    /\ last.op = "WriteInt32"
    /\ last.err = ErrorWriteOverflow
    /\ 0 < last.pre.offset
    /\ last.pre.offset < cap

\* C3: from an empty buffer, writes whose sizes sum to at most the capacity all
\* succeed and leave cursor = validLength = the sum; once the sum is the capacity a
\* further write of at least 1 byte fails with the write-overflow error and leaves
\* the state unchanged.
C3_CapacityBoundary ==
    /\ written >= 0 => (offset = written /\ length = written)
    /\ (last.op \in Writes /\ last.pre.written >= 0 /\ written >= 0) => last.err = Nil
    /\ (last.op \in Writes /\ last.pre.written = cap /\ LastSize >= 1) =>
            (last.err = ErrorWriteOverflow /\ StateUnchanged)

\* C3 witness: several writes have filled a non-empty buffer exactly and a further
\* write of 2 bytes is refused.
C3_Witness ==
    /\ last.op = "WriteUInt16"
    /\ last.pre.written = cap
    /\ cap > 0
    /\ last.pre.after = "none"
    /\ last.err = ErrorWriteOverflow

\* C4: a sequential read of size s >= 1 called when cursor + s > validLength fails
\* with the read-overflow error and leaves cursor, validLength and storage unchanged.
C4_ReadOverflowIsNoOp ==
    (last.op \in Reads /\ LastSize >= 1
        /\ SumExceeds(last.pre.offset, LastSize, last.pre.length)) =>
        (last.err = ErrorReadOverflow /\ StateUnchanged)

\* C5: a value of a primitive type written at cursor c, then SetPosition(c), then the
\* read of that type under the same byte order: the read succeeds, returns the value
\* written and leaves the cursor at c + size.
C5_RoundTrip ==
    (last.op \in PrimitiveReads /\ last.pre.rt.stage = 2
        /\ last.pre.rt.op \in PrimitiveWrites
        /\ order = last.pre.rt.order) =>
        /\ last.err = Nil
        /\ last.ret = <<last.pre.rt.value>>
        /\ offset = last.pre.rt.at + SizeOf(last.op)

\* C5 witness: a negative float64 written under the big-endian order has been read
\* back.
C5_Witness ==
    /\ last.op = "ReadFloat64"
    /\ last.pre.rt.stage = 2
    /\ order = last.pre.rt.order
    /\ order = BigEndian
    /\ last.err = Nil
    /\ last.ret[1].sign = 1

\* The value the last call, a read, returned: the count and the destination of a
\* ReadBytes, the value of the others.
C6_ReadBackOf(w) ==
    IF w.op = "WriteBytes" THEN <<Len(w.value), w.value>> ELSE <<w.value>>

\* C6: after Reset, successful writes, then SetPosition(0), then the reads of the
\* same types and sizes in the same order: every read succeeds, the i-th read
\* returns the i-th value written, and after the last read Position() is the
\* position recorded just after the writes, which is Length() and the sum of the
\* sizes written.
C6_WriteThenReadBack ==
    (scn.phase = "read" /\ last.op \in Reads) =>
        /\ last.err = Nil
        /\ last.ret = C6_ReadBackOf(scn.log[scn.next - 1])
        /\ scn.next > Len(scn.log) =>
                (Position = scn.pos /\ Position = Length /\ Position = scn.sum)

\* C6 witness: int8(100), int16(32767), int32(25) were written after a Reset of a
\* dirtied buffer and read back; the position is 7.
C6_Witness ==
    /\ scn.phase = "read"
    /\ scn.dirty
    /\ scn.log = <<[op |-> "WriteInt8", value |-> 100],
                   [op |-> "WriteInt16", value |-> 32767],
                   [op |-> "WriteInt32", value |-> 25]>>
    /\ scn.next = 4
    /\ last.op = "ReadInt32"
    /\ last.ret = <<25>>
    /\ Position = 7

\* C7: SetPosition(p) succeeds exactly if 0 <= p <= validLength and then sets the
\* cursor to p; otherwise it returns the position error; validLength, storage and,
\* on the error, the cursor are unchanged.
C7_SetPosition ==
    last.op = "SetPosition" =>
        LET p == last.args[1] IN
        /\ length = last.pre.length
        /\ buf = last.pre.buf
        /\ order = last.pre.order
        /\ IF 0 <= p /\ p <= last.pre.length
           THEN last.err = Nil /\ offset = p
           ELSE last.err = ErrorPositionOverflow /\ offset = last.pre.offset

\* C7 witness: a position above validLength but within the capacity is refused.
C7_Witness ==
    /\ last.op = "SetPosition"
    /\ last.args[1] > last.pre.length
    /\ last.args[1] <= cap
    /\ last.err = ErrorPositionOverflow

\* C8: Reset never fails and leaves Length() = 0 and Position() = 0 with the
\* capacity, the byte order and the storage as they were; a Reset straight after a
\* Reset changes nothing.
C8_Reset ==
    last.op = "Reset" =>
        /\ last.err = Nil
        /\ Length = 0
        /\ Position = 0
        /\ buf = last.pre.buf
        /\ order = last.pre.order
        /\ Cap = last.pre.cap
        /\ last.pre.after = "Reset" => StateUnchanged

\* C8 witness: the second of two Resets in a row, on a buffer holding stale bytes.
C8_Witness ==
    /\ last.op = "Reset"
    /\ last.pre.after = "Reset"
    /\ \E i \in DOMAIN buf : buf[i] # 0

\* C9: a Put* or Get* call, successful or not, leaves Position() and Length()
\* unchanged; a Get* leaves the storage unchanged; a successful Put* changes only
\* the bytes in [offset, offset + size).
C9_PutGetFrame ==
    last.op \in (Puts \cup Gets) =>
        /\ Position = last.pre.offset
        /\ Length = last.pre.length
        /\ last.op \in Gets => buf = last.pre.buf
        /\ last.err # Nil => buf = last.pre.buf
        /\ (last.op \in Puts /\ last.err = Nil) =>
                \A i \in DOMAIN buf :
                    (i < last.args[1] \/ i >= last.args[1] + SizeOf(last.op))
                        => buf[i] = last.pre.buf[i]

\* C9 witness: a PutUInt16 away from the cursor has changed the storage.
C9_Witness ==
    /\ last.op = "PutUInt16"
    /\ last.err = Nil
    /\ buf # last.pre.buf
    /\ last.args[1] # last.pre.offset
    /\ last.pre.length > last.args[1] + SIZEOF_2_BYTE

\* C10: a Put* or Get* of width size at offset succeeds exactly if 0 <= offset and
\* offset + size <= validLength; otherwise it returns the position error and leaves
\* storage, cursor and validLength unchanged.
C10_PutGetBounds ==
    last.op \in (Puts \cup Gets) =>
        IF 0 <= last.args[1] /\ ~SumExceeds(last.args[1], SizeOf(last.op), last.pre.length)
        THEN last.err = Nil
        ELSE last.err = ErrorPositionOverflow /\ StateUnchanged

\* The integer writes: the sequential writes and the Put* of 2, 4 and 8 bytes.
C11_IntegerWrites ==
    {"WriteInt16", "WriteUInt16", "WriteInt32", "WriteUInt32", "WriteInt64",
     "WriteUInt64"} \cup Puts

\* The bytes of the 16-bit limb u and of the int32 x, most significant first.
C11_LimbBytes(u) == <<u \div 256, u % 256>>
C11_Int32Bytes(x) ==
    <<(x \div 16777216) % 256, (x \div 65536) % 256, (x \div 256) % 256, x % 256>>

\* The two's complement bytes of the value v that op writes, most significant first.
C11_BytesMSBFirst(op, v) ==
    CASE op \in {"WriteUInt16", "PutUInt16"} -> C11_LimbBytes(v)
      [] op = "WriteInt16" -> <<(v \div 256) % 256, v % 256>>
      [] op = "WriteInt32" -> C11_Int32Bytes(v)
      [] op \in {"WriteUInt32", "PutUInt32"} ->
            C11_LimbBytes(v[2]) \o C11_LimbBytes(v[1])
      [] op = "WriteInt64" ->
            C11_Int32Bytes(v.hi) \o C11_LimbBytes(v.lo[2]) \o C11_LimbBytes(v.lo[1])
      [] op \in {"WriteUInt64", "PutUInt64"} ->
            C11_LimbBytes(v[4]) \o C11_LimbBytes(v[3]) \o C11_LimbBytes(v[2])
                \o C11_LimbBytes(v[1])

\* C11: a successful write of a 2/4/8-byte integer v at offset o under the
\* little-endian order leaves byte k of v (least significant first) in
\* storage[o + k]; under the big-endian order it leaves the most significant byte in
\* storage[o] and the least significant in storage[o + size - 1].
C11_ByteOrder ==
    (last.op \in C11_IntegerWrites /\ last.err = Nil) =>
        LET put == last.op \in Puts
            o == IF put THEN last.args[1] ELSE last.pre.offset
            size == SizeOf(last.op)
            msb == C11_BytesMSBFirst(last.op, IF put THEN last.args[2] ELSE last.args[1])
        IN  \A k \in 0..(size - 1) :
                buf[o + k] = IF order = LittleEndian THEN msb[size - k] ELSE msb[k + 1]

\* C11 witness: a negative int32 has been written at an offset > 0 under the
\* big-endian order, its sign byte first.
C11_Witness ==
    /\ last.op = "WriteInt32"
    /\ last.err = Nil
    /\ order = BigEndian
    /\ last.pre.offset > 0
    /\ last.args[1] < 0
    /\ buf[last.pre.offset] = 255
    /\ buf[last.pre.offset + 1] = 0
    /\ buf[last.pre.offset + 2] = 1

\* The indices of the zero bytes in the valid data from the position on, before the
\* last call.
C12_ZerosAhead ==
    {i \in last.pre.offset..(last.pre.length - 1) : last.pre.buf[i] = 0}

\* C12: ReadString with a negative length, called with a zero byte in
\* [cursor, validLength), the first of them at t, returns the bytes in [cursor, t)
\* and leaves the cursor at t + 1, just past the terminator.
C12_ReadStringPastTerminator ==
    (last.op = "ReadString" /\ last.args[1] < 0 /\ C12_ZerosAhead # {}) =>
        LET t == Min(C12_ZerosAhead) IN
        /\ last.err = Nil
        /\ last.ret = <<Slice(last.pre.buf, last.pre.offset, t)>>
        /\ offset = t + 1

\* C13: ReadBytes(destination, length) with a positive length above the capacity of
\* the destination fails with a length-mismatch error, an error that is not the
\* read-overflow error, and leaves the cursor, the valid length, the storage and
\* the destination untouched.
C13_ReadBytesLengthMismatch ==
    (last.op = "ReadBytes" /\ last.args[2] > 0 /\ last.args[2] > Len(last.args[1])) =>
        /\ last.err \notin {Nil, Panic}
        /\ last.err # ErrorReadOverflow
        /\ StateUnchanged
        /\ last.ret = <<0, last.args[1]>>

\* C14: no successful sequential read and no successful Get* returns a byte of a
\* storage index >= validLength: what it returns are the bytes of a range that ends
\* at or before validLength. In particular, with validLength = 0 (as Reset leaves
\* it) every read of size >= 1 and every Get* fails, stale bytes or not.
C14_NoReadBeyondValidLength ==
    /\ (last.op \in PrimitiveReads /\ last.err = Nil) =>
            last.pre.offset + SizeOf(last.op) <= last.pre.length
    /\ (last.op = "ReadString" /\ last.err = Nil) =>
            LET k == Len(last.ret[1]) IN
            /\ last.pre.offset + k <= last.pre.length
            /\ last.ret[1] = Slice(last.pre.buf, last.pre.offset, last.pre.offset + k)
    /\ (last.op = "ReadBytes" /\ last.err = Nil) =>
            LET k == last.ret[1] IN
            /\ last.pre.offset + k <= last.pre.length
            /\ SubSeq(last.ret[2], 1, k)
                   = Slice(last.pre.buf, last.pre.offset, last.pre.offset + k)
    /\ (last.op \in Gets /\ last.err = Nil) =>
            (0 <= last.args[1] /\ last.args[1] + SizeOf(last.op) <= last.pre.length)
    /\ (((last.op \in Reads /\ LastSize >= 1) \/ last.op \in Gets)
            /\ last.pre.length = 0) =>
            last.err # Nil

\* C14 witness: straight after a Reset that left stale non-zero bytes in storage, a
\* one-byte read is refused.
C14_Witness ==
    /\ last.op = "ReadInt8"
    /\ last.pre.after = "none"
    /\ last.pre.length = 0
    /\ cap > 0
    /\ last.pre.buf[0] # 0
    /\ last.err = ErrorReadOverflow

\* Both goroutines have returned from WriteBytes.
C15_BothDone == race.w # <<>> /\ \A t \in Writers : race.w[t].pc = "done"

\* An outcome of the two writes that the claim names: both were given the same
\* write offset, or the cursor or the valid length ends above the capacity, or the
\* cursor ends below the sum of the sizes written.
C15_Anomaly ==
    \/ race.w[1].ok /\ race.w[2].ok /\ race.w[1].off = race.w[2].off
    \/ offset > cap
    \/ length > cap
    \/ race.w[1].ok /\ race.w[2].ok /\ offset < race.w[1].size + race.w[2].size

\* C15: two writes that run without serialization race. When one ran after the
\* other (either order) the outcome is none of the anomalies; when the goroutines
\* interleaved so that both passed the capacity check before either stored the
\* advanced cursor, the outcome is an anomaly, one that no serial order reaches.
C15_UnserializedWritesRace ==
    C15_BothDone =>
        /\ ~race.raced => ~C15_Anomaly
        /\ race.window => C15_Anomaly

\* C15 witness: the two writes interleaved, both succeeded, and the cursor ended
\* above the capacity.
C15_Witness ==
    /\ C15_BothDone
    /\ race.window
    /\ race.w[1].ok /\ race.w[2].ok
    /\ offset > cap

\* The value of the type op writes that the bytes of b from c on decode to under the
\* order ord; v is the value written (it gives the length of a string or []byte).
C16_ValueAt(op, v, b, c, ord) ==
    CASE op = "WriteInt8" -> b[c]
      [] op = "WriteBoolean" -> (b[c] = TRUE_BYTE)
      [] op \in {"WriteBytes", "WriteString"} -> Slice(b, c, c + Len(v))
      [] op = "WriteInt16" -> I16ofU16(Uint(ord, SIZEOF_2_BYTE, b, c)[1])
      [] op = "WriteUInt16" -> Uint(ord, SIZEOF_2_BYTE, b, c)[1]
      [] op = "WriteInt32" -> I32ofU32(Uint(ord, SIZEOF_4_BYTE, b, c))
      [] op = "WriteUInt32" -> Uint(ord, SIZEOF_4_BYTE, b, c)
      [] op = "WriteInt64" -> I64ofU64(Uint(ord, SIZEOF_8_BYTE, b, c))
      [] op = "WriteUInt64" -> Uint(ord, SIZEOF_8_BYTE, b, c)
      [] op = "WriteFloat32" -> Float32frombits(Uint(ord, SIZEOF_4_BYTE, b, c))
      [] op = "WriteFloat64" -> Float64frombits(Uint(ord, SIZEOF_8_BYTE, b, c))

\* C16: a successful sequential write of size s at cursor c leaves the encoded value
\* in storage[c .. c+s), the cursor at c + s and validLength at
\* max(validLength, c + s), and leaves every storage byte outside [c, c+s), the
\* capacity and the byte order unchanged; an overwrite with c + s <= validLength
\* leaves validLength as it was.
C16_WriteFrame ==
    (last.op \in Writes /\ last.err = Nil) =>
        LET c == last.pre.offset
            s == LastSize
        IN  /\ C16_ValueAt(last.op, last.args[1], buf, c, order) = last.args[1]
            /\ offset = c + s
            /\ length = IF c + s > last.pre.length THEN c + s ELSE last.pre.length
            /\ \A i \in DOMAIN buf : (i < c \/ i >= c + s) => buf[i] = last.pre.buf[i]
            /\ cap = last.pre.cap
            /\ order = last.pre.order
            /\ c + s <= last.pre.length => length = last.pre.length

\* C16 witness: a 2-byte write has overwritten the start of 3 valid bytes; the
\* third byte and the valid length are as they were.
C16_Witness ==
    /\ last.op = "WriteInt16"
    /\ last.err = Nil
    /\ last.pre.offset = 0
    /\ last.pre.length = 3
    /\ length = 3
    /\ buf[2] = 255
    /\ Slice(buf, 0, 2) # Slice(last.pre.buf, 0, 2)

\* C17: in every step, validLength increases only in a successful sequential write
\* and decreases only in Reset; a read (successful or not, ReadString with a
\* negative length included), SetPosition, SetOrder, a Put* and a Get* leave
\* validLength as it was.
C17_ValidLengthChanges ==
    [][/\ length' > length => (last'.op \in Writes /\ last'.err = Nil)
       /\ length' < length => last'.op = "Reset"
       /\ last'.op \in (Reads \cup Puts \cup Gets \cup {"SetPosition", "SetOrder"})
              => length' = length]_vars

\* C17 witness: a ReadString with a negative length has consumed valid bytes and
\* the valid length is what it was.
C17_Witness ==
    /\ last.op = "ReadString"
    /\ last.args[1] < 0
    /\ last.err = Nil
    /\ offset > last.pre.offset
    /\ length = last.pre.length
    /\ length > 0

\* The unsigned value, as limbs, of the bits of the value v that op writes or reads.
C18_Bits(op, v) ==
    CASE op \in {"WriteInt16", "ReadInt16"} -> <<U16ofI16(v)>>
      [] op \in {"WriteUInt16", "ReadUInt16"} -> <<v>>
      [] op \in {"WriteInt32", "ReadInt32"} -> U32ofI32(v)
      [] op \in {"WriteUInt32", "ReadUInt32", "WriteUInt64", "ReadUInt64"} -> v
      [] op \in {"WriteInt64", "ReadInt64"} -> U64ofI64(v)
      [] op \in {"WriteFloat32", "ReadFloat32"} -> Float32bits(v)
      [] op \in {"WriteFloat64", "ReadFloat64"} -> Float64bits(v)

\* The limbs u with their bytes in the reverse order.
C18_Reversed(u) ==
    [j \in 1..Len(u) |->
        LET l == u[Len(u) + 1 - j] IN (l % 256) * 256 + (l \div 256)]

\* The Put* that stores what the Get* op decodes.
C18_PutOf(op) ==
    CASE op = "GetUInt16" -> "PutUInt16"
      [] op = "GetUInt32" -> "PutUInt32"
      [] op = "GetUInt64" -> "PutUInt64"

\* C18: SetOrder always succeeds and changes only the byte order: the storage, the
\* cursor, validLength and the capacity are unchanged. The operations after it use
\* the new order: a multi-byte value written under one order and read back at the
\* same offset after a switch to the other order is the byte-reversed value, and a
\* Get* returns the value whose bytes lie in storage in the order now set.
C18_SetOrder ==
    /\ last.op = "SetOrder" =>
            /\ last.err = Nil
            /\ order = last.args[1]
            /\ StateUnchanged
            /\ cap = last.pre.cap
    /\ (last.op \in PrimitiveReads /\ SizeOf(last.op) > 1 /\ last.pre.rt.stage = 2
            /\ order # last.pre.rt.order) =>
            /\ last.err = Nil
            /\ C18_Bits(last.op, last.ret[1])
                   = C18_Reversed(C18_Bits(last.op, last.pre.rt.value))
    /\ (last.op \in Gets /\ last.err = Nil) =>
            LET size == SizeOf(last.op)
                msb == C11_BytesMSBFirst(C18_PutOf(last.op), last.ret[1])
            IN  \A k \in 0..(size - 1) :
                    buf[last.args[1] + k]
                        = IF order = LittleEndian THEN msb[size - k] ELSE msb[k + 1]

\* C18 witness: a uint32 written under the little-endian order has been read back
\* under the big-endian order as another value.
C18_Witness ==
    /\ last.op = "ReadUInt32"
    /\ last.pre.rt.stage = 2
    /\ last.pre.rt.order = LittleEndian
    /\ order = BigEndian
    /\ last.err = Nil
    /\ last.ret[1] # last.pre.rt.value
    /\ buf = last.pre.buf

\* C19: ReadString with a negative length, called with no zero byte in
\* [cursor, validLength), does not fail: it returns all the bytes in
\* [cursor, validLength) (none when cursor = validLength) and leaves the cursor at
\* validLength, whatever lies in storage from validLength on.
C19_ReadStringNoTerminator ==
    (last.op = "ReadString" /\ last.args[1] < 0 /\ C12_ZerosAhead = {}) =>
        /\ last.err = Nil
        /\ last.ret = <<Slice(last.pre.buf, last.pre.offset, last.pre.length)>>
        /\ offset = last.pre.length
        /\ length = last.pre.length
        /\ buf = last.pre.buf

\* C19 witness: the scan has returned the one valid byte ahead and stopped at
\* validLength although a zero byte lies right behind it.
C19_Witness ==
    /\ last.op = "ReadString"
    /\ last.args[1] < 0
    /\ last.err = Nil
    /\ Len(last.ret[1]) = 1
    /\ offset = length
    /\ length < cap
    /\ buf[length] = 0

\* C20: ReadBytes(destination, length) with length < 0 is a read of n bytes, n the
\* capacity of the destination (len(value), the bytes it takes): with
\* cursor + n <= validLength it copies storage[cursor .. cursor+n) into the
\* destination, advances the cursor by n and returns n; otherwise it fails with the
\* read-overflow error, returns 0 and leaves the cursor and the destination as they
\* were. With 0 < length <= n and the bytes available it copies and returns exactly
\* length bytes.
C20_ReadBytesLength ==
    last.op = "ReadBytes" =>
        LET dest == last.args[1]
            n == IF last.args[2] < 0 THEN Len(dest) ELSE last.args[2]
            c == last.pre.offset
        IN  /\ last.args[2] < 0 =>
                IF c + n <= last.pre.length
                THEN /\ last.err = Nil
                     /\ last.ret = <<n, Slice(last.pre.buf, c, c + n)>>
                     /\ offset = c + n
                ELSE /\ last.err = ErrorReadOverflow
                     /\ last.ret = <<0, dest>>
                     /\ offset = c
            /\ (0 < n /\ n <= Len(dest) /\ c + n <= last.pre.length) =>
                /\ last.err = Nil
                /\ last.ret = <<n, Slice(last.pre.buf, c, c + n)
                                   \o SubSeq(dest, n + 1, Len(dest))>>
                /\ offset = c + n
            /\ length = last.pre.length
            /\ buf = last.pre.buf

\* C20 witness: a ReadBytes with a negative length has filled a destination of 2
\* bytes from the middle of the valid data.
C20_Witness ==
    /\ last.op = "ReadBytes"
    /\ last.args[2] < 0
    /\ Len(last.args[1]) = 2
    /\ last.err = Nil
    /\ last.pre.offset = 1
    /\ offset = 3
    /\ last.ret[1] = 2
    /\ last.ret[2] # last.args[1]

\* C21: ReadString(0) and ReadBytes(destination, 0) succeed in whatever state they
\* are called, the position at the valid length and an empty buffer included: they
\* return the empty string / the count 0 and leave the position, the valid length,
\* the storage and the destination unchanged.
C21_ZeroLengthReads ==
    /\ (last.op = "ReadString" /\ last.args = <<0>>) =>
            /\ last.err = Nil
            /\ last.ret = <<<<>>>>
            /\ StateUnchanged
    /\ (last.op = "ReadBytes" /\ last.args[2] = 0) =>
            /\ last.err = Nil
            /\ last.ret = <<0, last.args[1]>>
            /\ StateUnchanged

\* C21 witness: ReadBytes with length 0 and a destination of two bytes has been
\* called on a buffer of some capacity that holds no valid byte.
C21_Witness ==
    /\ last.op = "ReadBytes"
    /\ last.args[2] = 0
    /\ Len(last.args[1]) = 2
    /\ cap > 0
    /\ last.pre.length = 0
    /\ last.pre.offset = last.pre.length
    /\ last.err = Nil

\* C22: WriteBytes and WriteString of a payload of n bytes at cursor c return n and
\* no error when c + n <= capacity, the payload then standing byte for byte at
\* [c, c + n) whatever the byte order, and return 0 with the write-overflow error
\* otherwise; a payload of no bytes succeeds in whatever state it is written, a full
\* buffer with the cursor at the capacity included, and leaves the cursor, the valid
\* length and the storage unchanged.
C22_WriteBytes ==
    last.op \in {"WriteBytes", "WriteString"} =>
        LET n == Len(last.args[1])
            c == last.pre.offset
        IN  /\ IF c + n <= cap
               THEN /\ last.err = Nil
                    /\ last.ret = <<n>>
                    /\ offset = c + n
                    /\ Slice(buf, c, c + n) = last.args[1]
               ELSE /\ last.err = ErrorWriteOverflow
                    /\ last.ret = <<0>>
                    /\ StateUnchanged
            /\ n = 0 => (last.err = Nil /\ StateUnchanged)

\* C22 witness: under the big-endian order an empty string has been written to a
\* full buffer, the cursor at the capacity, whose last three bytes are a payload
\* as it was given.
C22_Witness ==
    /\ last.op = "WriteString"
    /\ last.args = <<<<>>>>
    /\ order = BigEndian
    /\ cap >= 3
    /\ last.pre.offset = cap
    /\ Slice(buf, cap - 3, cap) = <<1, 255, 0>>
    /\ last.err = Nil

\* C23: a freshly constructed buffer has validLength = cursor = 0; in every reachable
\* state the raw storage view has exactly Cap() bytes and Data() is the storage's
\* bytes [0, validLength), so that its length is Length() and at most Cap(); and no
\* step changes Cap() or the size of the storage, so that Cap() is the capacity
\* given at construction and the storage the one allocated there.
C23_CapacityAndData ==
    /\ Length = 0 /\ Position = 0
    /\ [](/\ DOMAIN Buffer = 0..(Cap - 1)
          /\ SliceOK(0, Length, Cap)
          /\ Len(Data) = Length
          /\ \A i \in 1..Len(Data) : Data[i] = Buffer[i - 1]
          /\ Len(Data) <= Cap)
    /\ [][Cap' = Cap /\ DOMAIN Buffer' = DOMAIN Buffer]_vars

\* C23 witness: a write has been refused by a full buffer of some capacity, whose
\* valid data is then the whole of the storage.
C23_Witness ==
    /\ last.op \in Writes
    /\ last.err = ErrorWriteOverflow
    /\ Cap > 0
    /\ Position < Length
    /\ Len(Data) = Cap
    /\ Cap = last.pre.cap

\* The storage indices whose bytes the last call, a successful read or Get*, has
\* looked at: those of the value it returned and, for a ReadString with a negative
\* length, the terminator its scan stopped at.
C24_BytesRead ==
    IF last.op \in Gets
    THEN last.args[1]..(last.args[1] + SizeOf(last.op) - 1)
    ELSE IF last.op = "ReadString" /\ last.args[1] < 0
    THEN {i \in last.pre.offset..offset : i < last.pre.length}
    ELSE last.pre.offset..(last.pre.offset + LastSize - 1)

\* C24: a buffer that has been Reset cannot be told from a freshly constructed one of
\* the same capacity and byte order, whatever is called next: Reset leaves Cap and
\* the byte order as they were, Length = Position = 0 and Data empty, as after the
\* construction; from then on every byte below validLength has been stored since the
\* Reset, and a successful read or Get* looks at such bytes only, so that what the
\* buffer held before the Reset (still in the raw storage beyond validLength) shows in
\* no returned value.
C24_ReuseEquivalence ==
    /\ \A i \in 0..(length - 1) : i \in since
    /\ last.op = "Reset" =>
            /\ Cap = last.pre.cap
            /\ order = last.pre.order
            /\ Length = 0 /\ Position = 0
            /\ Data = <<>>
            /\ since = {}
    /\ (last.op \in (Reads \cup Gets) /\ last.err = Nil) =>
            /\ C24_BytesRead \subseteq last.pre.since
            /\ \A i \in C24_BytesRead : i < last.pre.length

\* C24 witness: on a reused buffer a byte written since the Reset has been read, and
\* the byte just beyond the valid data is one left from before the Reset, which a
\* fresh buffer would hold as zero.
C24_Witness ==
    /\ last.op = "ReadInt8"
    /\ last.err = Nil
    /\ length < cap
    /\ length \notin since
    /\ buf[length] # 0

\* C25: after a successful Put* of width w with value v at offset o, the Get* of
\* width w at o under the same byte order succeeds and returns v, and SetPosition(o)
\* followed by the sequential unsigned read of width w succeeds and returns v; the
\* bytes outside [o, o + w) are, after the Put*, what they were before it.
C25_PatchRoundTrip ==
    /\ (last.op \in Gets /\ last.pre.rt.stage = 1 /\ last.pre.rt.op \in Puts
            /\ order = last.pre.rt.order) =>
            /\ last.op = GetOf(last.pre.rt.op)
            /\ last.args = <<last.pre.rt.at>>
            /\ last.err = Nil
            /\ last.ret = <<last.pre.rt.value>>
    /\ (last.op \in PrimitiveReads /\ last.pre.rt.stage = 2 /\ last.pre.rt.op \in Puts
            /\ order = last.pre.rt.order) =>
            /\ last.op = ReadOf(last.pre.rt.op)
            /\ last.pre.offset = last.pre.rt.at
            /\ last.err = Nil
            /\ last.ret = <<last.pre.rt.value>>
    /\ (last.op \in Puts /\ last.err = Nil) =>
            /\ Len(Data) = Len(Slice(last.pre.buf, 0, last.pre.length))
            /\ \A i \in 1..Len(Data) :
                    (i - 1 < last.args[1] \/ i - 1 >= last.args[1] + SizeOf(last.op))
                        => Data[i] = last.pre.buf[i - 1]

\* C25 witness: a 32-bit value Put behind valid bytes and before others has been read
\* back by SetPosition and ReadUInt32.
C25_Witness ==
    /\ last.op = "ReadUInt32"
    /\ last.pre.rt.stage = 2
    /\ last.pre.rt.op = "PutUInt32"
    /\ last.pre.rt.at > 0
    /\ last.pre.rt.at + SIZEOF_4_BYTE < length
    /\ order = last.pre.rt.order
    /\ last.err = Nil

\* C25 witness (Get*): a 16-bit value Put away from the position has been read back
\* by GetUInt16.
C25_GetWitness ==
    /\ last.op = "GetUInt16"
    /\ last.pre.rt.stage = 1
    /\ last.pre.rt.op = "PutUInt16"
    /\ last.pre.rt.at # last.pre.offset
    /\ last.err = Nil

\* C26: for every machine-integer offset, those so close to the largest integer that
\* offset + size wraps around to a negative number included, a Put* or Get* whose
\* range [offset, offset + size) is not inside [0, validLength) returns the position
\* error without accessing the storage and leaves the state unchanged.
C26_PutGetWrapAround ==
    (last.op \in (Puts \cup Gets)
        /\ (last.args[1] < 0
            \/ SumExceeds(last.args[1], SizeOf(last.op), last.pre.length))) =>
        /\ last.err = ErrorPositionOverflow
        /\ StateUnchanged

\* C27: ReadString(length) with any positive machine-integer length larger than
\* validLength - cursor, those for which cursor + length wraps around to a negative
\* number included, fails with the read-overflow error and leaves the cursor
\* unchanged: the cursor never becomes negative or exceeds validLength.
C27_ReadStringWrapAround ==
    (last.op = "ReadString" /\ last.args[1] > 0
        /\ last.args[1] > last.pre.length - last.pre.offset) =>
        /\ last.err = ErrorReadOverflow
        /\ offset = last.pre.offset
        /\ 0 <= offset /\ offset <= length

====
